---- MODULE Spec2Model ----
(***************************************************************************)
(* Model of the collage engine of my-craft-crew:                           *)
(*   services/collage_generator.py  (CollageGenerator)                     *)
(*   services/image_processor.py    (ImageProcessor)                       *)
(*   models/design_models.py        (DesignRequest, ImagePosition)         *)
(* and of the task lifecycle around it:                                    *)
(*   agents/base_agent.py, agents/design_agent.py, api/routes.py           *)
(*                                                                         *)
(* A run is one call of CollageGenerator.generate_collage.  Runs are        *)
(* coroutines on one event loop: a run is a sequence of steps, and the     *)
(* steps of different runs interleave at the await expressions of          *)
(* generate_collage and _process_images_for_collage.  A layout routine     *)
(* contains no await, so its loop is never interleaved with another run.   *)
(* The file system (processed_images/, collages/) and the wall clock       *)
(* (one-second resolution, as formatted by strftime) are shared.           *)
(***************************************************************************)
EXTENDS Integers, Sequences, FiniteSets, TLC

VARIABLES
    active,      \* the runs that exist in this behaviour
    req,         \* req[r]: the DesignRequest and task id of run r
    pc,          \* pc[r]: position of run r inside generate_collage
    idx,         \* idx[r]: loop index (pre-sizing loop, then layout loop)
    processed,   \* processed[r]: processed_images, the working set
    tfail,       \* tfail[r]: request indices whose process_image raised
    lfail,       \* lfail[r]: working-set indices whose Image.open raised
    canvas,      \* canvas[r]: the canvas buffer of the run
    elements,    \* elements[r]: the CollageElement list being built
    opened,      \* opened[r]: what the layout found in each file it opened
    result,      \* result[r]: the CollageGenerationResult, or NoResult
    error,       \* error[r]: the exception generate_collage raised, or "none"
    fs,          \* processed_images/ directory: path -> file content
    outfs,       \* collages/ directory: path -> number of writes
    clock,       \* datetime.utcnow() in whole seconds
    tasks,           \* tasks[t]: the Task object t
    task_storage,    \* routes.task_storage: the ids of the stored tasks
    current_tasks,   \* BaseAgent._current_tasks: the ids it holds
    tpc,             \* tpc[t]: position of the coroutine that handles task t
    engine_called,   \* engine_called[t]: generate_collage was invoked for t
    reported,        \* reported[t]: what the entry path returned for task t
    agent_status,    \* BaseAgent._status
    rel_import_ok,   \* whether the import of _create_design_request resolves
    performance_metrics   \* BaseAgent._performance_metrics: the two counters

agentVars == <<tasks, task_storage, current_tasks, tpc, engine_called,
               reported, agent_status, rel_import_ok, performance_metrics>>

collageVars == <<active, req, pc, idx, processed, tfail, lfail, canvas,
                 elements, opened, result, error, fs, outfs, clock>>

vars == <<active, req, pc, idx, processed, tfail, lfail, canvas, elements,
          opened, result, error, fs, outfs, clock, agentVars>>

-----------------------------------------------------------------------------
(* Bounds of the model *)

MaxImages == 3          \* longest request of a single run
MaxConcImages == 1      \* longest request of two concurrent runs
MaxBatchImages == 2     \* longest request of two runs in a batch
MaxClock == 1           \* the clock takes the values 0..MaxClock
MaxApiTasks == 2        \* tasks that take any entry path to the agent
MaxLayoutImages == 6    \* longest request of a grid or stacked run
MaxMosaicImages == 11   \* longest request of a mosaic run
MaxMosaicFaults == 1    \* most images of a mosaic run that fail
MaxFreeformImages == 2  \* longest request of a freeform run

Runs == {1, 2}
TaskIds == {1, 2}

(* The uploaded images: id, pixel width and height (ImageInfo). *)
SrcIds == {1, 2}
SrcW(s) == IF s = 1 THEN 400 ELSE 300
SrcH(s) == IF s = 1 THEN 300 ELSE 400

(* uuid4() never returns a value it returned before: the ids of the        *)
(* uploaded images are the first draws; the draw made for the i-th image    *)
(* of run r is numbered after them.                                         *)
MaxLen == MaxImages + MaxConcImages + MaxBatchImages + MaxLayoutImages
              + MaxMosaicImages
FreshId(r, i) == Cardinality(SrcIds) + (r - 1) * MaxLen + i + 1

SupportedLayouts == {"grid", "stacked", "circular", "freeform", "mosaic"}
Layouts == SupportedLayouts \cup {"unknown"}

(* output_width, output_height, spacing of the requests of a single run *)
Shapes == {<<100, 100, 0>>, <<100, 100, 100>>, <<800, 800, 10>>, <<800, 600, 100>>}

NoResult == [kind |-> "none"]
NoCanvas == [allocated |-> FALSE, width |-> 0, height |-> 0, pastes |-> 0]
NoFile == [kind |-> "nofile"]

-----------------------------------------------------------------------------
(* Arithmetic helpers *)

Min(a, b) == IF a <= b THEN a ELSE b
Max(a, b) == IF a >= b THEN a ELSE b
Abs(a) == IF a >= 0 THEN a ELSE -a

(* int(math.ceil(math.sqrt(n))) *)
CeilSqrt(n) == CHOOSE k \in 0..n : k * k >= n /\ \A j \in 0..(k-1) : j * j < n

(* int(math.ceil(a / b)) for b > 0 *)
CeilDiv(a, b) == IF a % b = 0 THEN a \div b ELSE (a \div b) + 1

Range(s) == {s[i] : i \in 1..Len(s)}

SeqsUpTo(S, n) == UNION {[1..k -> S] : k \in 0..n}

-----------------------------------------------------------------------------
(* Pillow's Image.thumbnail((bw, bh)) applied to an image of w x h pixels: *)
(* aspect-preserving, shrink-only.  The result is computed as Pillow's     *)
(* preserve_aspect_ratio does: the side that is not pinned to the box is    *)
(* floor or ceil of the exact value, whichever keeps the aspect closer      *)
(* (floor on a tie), and at least 1.                                        *)

(* A box with a side below 1 makes thumbnail raise (division by zero, or    *)
(* a resize to a non-positive size).                                        *)
ThumbOK(bw, bh) == bw >= 1 /\ bh >= 1

(* round_aspect(bh * w / h, key = |w/h - n/bh|) *)
RoundAspectX(w, h, bh) ==
    LET f == (bh * w) \div h
        c == CeilDiv(bh * w, h)
        pick == IF Abs(w * bh - f * h) <= Abs(w * bh - c * h) THEN f ELSE c
    IN Max(pick, 1)

(* round_aspect(bw * h / w, key = 0 if n = 0 else |w/h - bw/n|) *)
RoundAspectY(w, h, bw) ==
    LET f == (bw * h) \div w
        c == CeilDiv(bw * h, w)
        pick == IF f = 0 THEN f
                ELSE IF Abs(w * f - bw * h) * c <= Abs(w * c - bw * h) * f
                     THEN f ELSE c
    IN Max(pick, 1)

Thumbnail(w, h, bw, bh) ==
    IF bw >= w /\ bh >= h THEN <<w, h>>
    ELSE IF bw * h >= w * bh
         THEN <<RoundAspectX(w, h, bh), bh>>
         ELSE <<bw, RoundAspectY(w, h, bw)>>

-----------------------------------------------------------------------------
(* Pre-sizing: the per-image target box of _process_images_for_collage.    *)

DefaultSpacing == 10

PreCols(n) == IF n <= 4 THEN 2 ELSE IF n <= 9 THEN 3 ELSE CeilSqrt(n)
PreRows(n) == IF n <= 4 THEN 2 ELSE IF n <= 9 THEN 3 ELSE CeilDiv(n, PreCols(n))

PreSizeBox(n, W, H) ==
    <<(W - DefaultSpacing * (PreCols(n) - 1)) \div PreCols(n),
      (H - DefaultSpacing * (PreRows(n) - 1)) \div PreRows(n)>>

(* pydantic validation of ImagePosition: x >= 0, y >= 0, width > 0,        *)
(* height > 0.  A violation raises inside the layout's try block.          *)
ImagePositionValid(x, y, w, h) == x >= 0 /\ y >= 0 /\ w > 0 /\ h > 0

(* The outcome of one iteration of a layout loop: ok = an element is       *)
(* appended; pasted = canvas.paste was reached.  thumbnail raising skips    *)
(* both; ImagePosition raising comes after the paste and skips the element. *)
(* attempts is the value of the freeform layout's attempts counter when its *)
(* sampling loop ended; the other layouts have no such loop.                *)
Placement(x, y, w, h) ==
    [ok |-> TRUE, pasted |-> TRUE, x |-> x, y |-> y, width |-> w, height |-> h,
     attempts |-> 0]
NoPlacement ==
    [ok |-> FALSE, pasted |-> FALSE, x |-> 0, y |-> 0, width |-> 0, height |-> 0,
     attempts |-> 0]

Validated(x, y, w, h) ==
    IF ImagePositionValid(x, y, w, h) THEN Placement(x, y, w, h)
    ELSE [NoPlacement EXCEPT !.pasted = TRUE]

-----------------------------------------------------------------------------
(* Layout: grid.  i is the 0-based index in the working set of size m;      *)
(* (fw, fh) is the size of the image found in the opened file.              *)

GridCols(m) == CeilSqrt(m)
GridRows(m) == CeilDiv(m, GridCols(m))
(* variant: the spacing is not taken off the width *)
GridCellW_nospacing(m, W, sp) == W \div GridCols(m)

GridCellW(m, W, sp) == (W - sp * (GridCols(m) - 1)) \div GridCols(m)
(* variant: the spacing is not taken off the height *)
GridCellH_nospacing(m, H, sp) == H \div GridRows(m)

GridCellH(m, H, sp) == (H - sp * (GridRows(m) - 1)) \div GridRows(m)

(* variant: row and column are exchanged *)
GridPlace_transposed(m, W, H, sp, i, fw, fh) ==
    LET cw == GridCellW(m, W, sp)
        ch == GridCellH(m, H, sp)
        x == (i \div GridCols(m)) * (cw + sp)
        y == (i % GridCols(m)) * (ch + sp)
    IN IF ~ThumbOK(cw, ch) THEN NoPlacement
       ELSE LET t == Thumbnail(fw, fh, cw, ch)
            IN Validated(x + ((cw - t[1]) \div 2), y + ((ch - t[2]) \div 2),
                         t[1], t[2])

(* variant: the column does not wrap at the end of a row *)
GridPlace_nowrap(m, W, H, sp, i, fw, fh) ==
    LET cw == GridCellW(m, W, sp)
        ch == GridCellH(m, H, sp)
        x == i * (cw + sp)
        y == (i \div GridCols(m)) * (ch + sp)
    IN IF ~ThumbOK(cw, ch) THEN NoPlacement
       ELSE LET t == Thumbnail(fw, fh, cw, ch)
            IN Validated(x + ((cw - t[1]) \div 2), y + ((ch - t[2]) \div 2),
                         t[1], t[2])

GridPlace(m, W, H, sp, i, fw, fh) ==
    LET cw == GridCellW(m, W, sp)
        ch == GridCellH(m, H, sp)
        x == (i % GridCols(m)) * (cw + sp)
        y == (i \div GridCols(m)) * (ch + sp)
    IN IF ~ThumbOK(cw, ch) THEN NoPlacement
       ELSE LET t == Thumbnail(fw, fh, cw, ch)
            IN Validated(x + ((cw - t[1]) \div 2), y + ((ch - t[2]) \div 2),
                         t[1], t[2])

(* Layout: stacked.  cy is current_y before the image.                      *)
(* variant: the spacing is not taken off the height *)
StackedImageHeight_nospacing(m, H, sp) == H \div m

StackedImageHeight(m, H, sp) == (H - sp * (m - 1)) \div m

StackedPlace(m, W, H, sp, cy, fw, fh) ==
    LET ih == StackedImageHeight(m, H, sp)
    IN IF ~ThumbOK(W, ih) THEN NoPlacement
       ELSE LET t == Thumbnail(fw, fh, W, ih)
            IN Validated((W - t[1]) \div 2, cy, t[1], t[2])

(* Layout: mosaic.  Cells are scanned row-major in steps of tile_size; the  *)
(* image at index i is consumed by the i-th cell of the scan, if there is   *)
(* one.                                                                     *)
TileSize(W, H) == Min(W, H) \div 10
MosaicCols(W, H) == CeilDiv(W, TileSize(W, H))
MosaicRows(W, H) == CeilDiv(H, TileSize(W, H))
MosaicCells(W, H) == MosaicCols(W, H) * MosaicRows(W, H)

MosaicPlace(W, H, i, fw, fh) ==
    LET ts == TileSize(W, H)
        x == (i % MosaicCols(W, H)) * ts
        y == (i \div MosaicCols(W, H)) * ts
    IN IF ~ThumbOK(ts, ts) THEN NoPlacement
       ELSE LET t == Thumbnail(fw, fh, ts, ts)
            IN Validated(x, y, t[1], t[2])

-----------------------------------------------------------------------------
(* Layout: circular.  x = center_x + radius * math.cos(angle) - size // 2   *)
(* is computed in double precision and truncated by int().  cos and sin of  *)
(* 2*pi*i/m are the doubles math.cos/math.sin return: 1, -1 and -0.5 + d     *)
(* aside, they miss 0 and -0.5 by a few 1e-16, and a sum that would be an    *)
(* integer lands just below it when the deviation is negative and survives   *)
(* the rounding of the addition.  The working set has at most 4 images.      *)

(* largest power of two strictly below n (n >= 2), resp. at most n (n >= 1) *)
Pow2Below(n) == CHOOSE p \in {2^k : k \in 0..12} : p < n /\ n <= 2 * p
Pow2AtMost(n) == CHOOSE p \in {2^k : k \in 0..12} : p <= n /\ n < 2 * p

(* a / b rounded to nearest, ties to even *)
RoundHalfEven(a, b) ==
    LET f == a \div b
        rem == a % b
    IN IF 2 * rem > b THEN f + 1
       ELSE IF 2 * rem < b THEN f
       ELSE IF f % 2 = 0 THEN f ELSE f + 1

(* floor(r * sqrt(3) / 2) *)
HalfSqrt3Floor(r) ==
    CHOOSE k \in 0..r : 4 * k * k <= 3 * r * r /\ 4 * (k + 1) * (k + 1) > 3 * r * r

(* c0 + r * cos(3*pi/2) < c0 in doubles: cos(3*pi/2) = -1.8369701987210297e-16 *)
TinySurvives(c0, r) == 16546 * r > 10000 * Pow2Below(c0)

(* c0 + r * cos(4*pi/3) < c0 - r/2 in doubles, r even:                       *)
(* cos(4*pi/3) = -0.5000000000000004 = -(0.5 + 2^-51)                        *)
HalfSurvives(c0, r) ==
    LET h == r \div 2
        b == Pow2AtMost(h)
    IN RoundHalfEven(4 * h, b) * 2 * b > Pow2Below(c0 - h)

(* int(c0 + r * math.cos(2*pi*i/m)) for 0 <= i < m <= 4 *)
CosTerm(c0, r, i, m) ==
    CASE i = 0 -> c0 + r
      [] m = 2 /\ i = 1 -> c0 - r
      [] m = 4 /\ i = 2 -> c0 - r
      [] m = 4 /\ i = 1 -> c0
      [] m = 4 /\ i = 3 -> IF TinySurvives(c0, r) THEN c0 - 1 ELSE c0
      [] m = 3 /\ i = 1 -> c0 + ((0 - r) \div 2)
      [] m = 3 /\ i = 2 ->
           IF r % 2 = 1 THEN c0 + ((0 - r) \div 2)
           ELSE IF HalfSurvives(c0, r) THEN c0 - (r \div 2) - 1
           ELSE c0 - (r \div 2)

(* int(c0 + r * math.sin(2*pi*i/m)) for 0 <= i < m <= 4 *)
SinTerm(c0, r, i, m) ==
    CASE i = 0 -> c0
      [] m = 2 /\ i = 1 -> c0
      [] m = 4 /\ i = 2 -> c0
      [] m = 4 /\ i = 1 -> c0 + r
      [] m = 4 /\ i = 3 -> c0 - r
      [] m = 3 /\ i = 1 -> c0 + HalfSqrt3Floor(r)
      [] m = 3 /\ i = 2 -> c0 - HalfSqrt3Floor(r) - 1

CircularRadius(W, H) == Min(W, H) \div 3
MaxCircularImage == 200
CircularImageSize(W, H) == Min(CircularRadius(W, H) \div 2, MaxCircularImage)

CircularPlace(m, W, H, i, fw, fh) ==
    LET r == CircularRadius(W, H)
        sz == CircularImageSize(W, H)
        x == CosTerm(W \div 2, r, i, m) - (sz \div 2)
        y == SinTerm(H \div 2, r, i, m) - (sz \div 2)
    IN IF ~ThumbOK(sz, sz) THEN NoPlacement
       ELSE LET t == Thumbnail(fw, fh, sz, sz)
            IN Validated(x, y, t[1], t[2])

(* Layout: freeform.  max_size is random.randint(100, 300); a candidate     *)
(* (x, y) is random.randint(0, W - w), random.randint(0, H - h).  The model  *)
(* draws max_size and the candidates from the samples below.                 *)
MinFreeformSize == 100
MaxFreeformSize == 300
FreeformSizes == {MinFreeformSize, MaxFreeformSize}
RandSamples(hi) == {0, hi}
(* the ends and the middle of the range of random.randint(0, hi) *)
FineSamples(hi) == {0, hi \div 2, hi}

(* while attempts < 50 *)
MaxAttempts == 50
(* how many candidates the sampling loop draws before one passes the test   *)
FirstTry == {1}
AttemptSamples == {1, MaxAttempts}

(* the proximity test of a candidate (x, y) for an image of w x h against   *)
(* used_positions                                                           *)
Overlaps(x, y, w, h, used) ==
    \E k \in 1..Len(used) :
        Abs(x - used[k][1]) < w /\ Abs(y - used[k][2]) < h

(* the candidate passed the test when attempts candidates had failed it *)
FreeformAccept(x, y, w, h, attempts) ==
    [Validated(x, y, w, h) EXCEPT !.attempts = attempts]

(* variant: an image for which no candidate passed the test is skipped *)
FreeformExhausted_skip(x, y, w, h) == NoPlacement

(* the loop ended with attempts = 50: the last candidate is pasted *)
FreeformExhausted(x, y, w, h) ==
    [Validated(x, y, w, h) EXCEPT !.attempts = MaxAttempts]

(* What the sampling loop can end with, for candidates drawn from xs and ys *)
(* and used positions used: a candidate that passes the test, as the k-th   *)
(* one drawn after k - 1 that failed it (k in tries; k > 1 needs a          *)
(* candidate that fails), or a candidate that fails it, as the last of      *)
(* MaxAttempts that all failed.                                             *)
FreeformLoop(w, h, xs, ys, tries, used) ==
    LET cands == xs \X ys
        bad == {c \in cands : Overlaps(c[1], c[2], w, h, used)}
        ks == {k \in tries : k = 1 \/ bad # {}}
    IN {FreeformAccept(c[1], c[2], w, h, k - 1) : c \in cands \ bad, k \in ks}
       \cup {FreeformExhausted(c[1], c[2], w, h) : c \in bad}

-----------------------------------------------------------------------------
(* State machine *)

Request(images, layout, canvasSize, spacing, task) ==
    [images |-> images, layout |-> layout, output_width |-> canvasSize[1],
     output_height |-> canvasSize[2], spacing |-> spacing, task_id |-> task]

Requests == {Request(im, l, <<sh[1], sh[2]>>, sh[3], 1) :
                im \in SeqsUpTo(SrcIds, MaxImages), l \in Layouts, sh \in Shapes}

(* Two-run specifications.  Both runs are given the same images and the    *)
(* same layout.                                                             *)
TwoRunCanvases == {<<100, 100>>, <<800, 600>>}
TwoRunImages(n) == SeqsUpTo(SrcIds, n) \ {<<>>}
ConcLayouts == {"grid", "stacked"}
BatchLayouts == {"grid", "stacked", "circular", "mosaic"}

NumImages(r) == Len(req[r].images)
Width(r) == req[r].output_width
Height(r) == req[r].output_height

(* os.path.join(output_directory, f"processed_{original_info.id}_{timestamp}.jpg") *)
ProcessedPath(src, now) == <<src, now>>
(* os.path.join(output_directory, f"collage_{task_id}_{timestamp}.jpg") *)
CollagePath(task, now) == <<task, now>>

ProcessedPaths == SrcIds \X (0..MaxClock)
CollagePaths == TaskIds \X (0..MaxClock)

-----------------------------------------------------------------------------
(* Tasks and the design agent: models/task_models.py, agents/, api/routes.py *)

MaxConcurrentTasks == 3     \* DesignAgent: max_concurrent_tasks=3
MaxTaskImages == 20         \* validate_task: len(task.images) > 20

(* enough tasks to go beyond the capacity of the agent *)
Tasks == 1..Max(MaxApiTasks, MaxConcurrentTasks + 1)

FinalStatuses == {"completed", "failed", "cancelled"}
TaskStatuses == {"pending", "in_progress"} \cup FinalStatuses

(* how a task reaches the agent: the HTTP routes and their background      *)
(* processing, BaseAgent.assign_task, or DesignAgent.process_batch_tasks    *)
EntryPaths == {"http", "agent", "batch"}

(* A Task: status PENDING and no result when constructed.  nimages is       *)
(* len(task.images), has_spec is design_spec is not None, files_valid is    *)
(* what validate_image finds for its files; entry is bookkeeping.           *)
Task(entry, nimages, has_spec, files_valid) ==
    [entry |-> entry, agent_type |-> "design", nimages |-> nimages,
     has_spec |-> has_spec, files_valid |-> files_valid,
     status |-> "pending", result |-> FALSE]

NoTask == Task("none", 0, FALSE, FALSE)

(* <<number of images, has a design specification, files are valid>> *)
TaskShapes ==
    {<<MaxTaskImages, TRUE, TRUE>>, <<MaxTaskImages + 1, TRUE, TRUE>>,
     <<1, FALSE, TRUE>>, <<1, TRUE, FALSE>>}

(* variant: validate_task without the limit on the number of images *)
ValidateTask_nolimit(tk) ==
    /\ tk.agent_type = "design"
    /\ tk.nimages # 0
    /\ tk.has_spec
    /\ tk.files_valid

(* DesignAgent.validate_task *)
ValidateTask(tk) ==
    /\ tk.agent_type = "design"
    /\ tk.nimages # 0
    /\ tk.has_spec
    /\ ~(tk.nimages > MaxTaskImages)
    /\ tk.files_valid

(* Task.update_status *)
UpdateStatus(tk, status) == [tk EXCEPT !.status = status]

(* _performance_metrics is empty until the first update, which creates the  *)
(* counters at 0 before it counts                                           *)
NoMetrics == [task_count |-> 0, success_count |-> 0]

(* variant: a failed task is not counted *)
UpdatePerformanceMetrics_nofail(pm, success) ==
    IF success
    THEN [task_count |-> pm.task_count + 1,
          success_count |-> pm.success_count + 1]
    ELSE pm

(* BaseAgent._update_performance_metrics *)
UpdatePerformanceMetrics(pm, success) ==
    [task_count |-> pm.task_count + 1,
     success_count |-> IF success THEN pm.success_count + 1
                       ELSE pm.success_count]

(* variant: a task that is rejected is marked FAILED *)
RejectedTask_failed(tk) == UpdateStatus(tk, "failed")

(* assign_task returns False: the task is left as it was *)
RejectedTask(tk) == tk

(* no task and an agent that was constructed and not started *)
AgentIdle ==
    /\ tasks = [t \in Tasks |-> NoTask]
    /\ task_storage = {}
    /\ current_tasks = {}
    /\ tpc = [t \in Tasks |-> "none"]
    /\ engine_called = [t \in Tasks |-> FALSE]
    /\ reported = [t \in Tasks |-> "none"]
    /\ agent_status = "offline"
    /\ rel_import_ok = TRUE
    /\ performance_metrics = NoMetrics

-----------------------------------------------------------------------------

InitCommon ==
    /\ idx = [r \in Runs |-> 0]
    /\ processed = [r \in Runs |-> <<>>]
    /\ tfail = [r \in Runs |-> {}]
    /\ lfail = [r \in Runs |-> {}]
    /\ canvas = [r \in Runs |-> NoCanvas]
    /\ elements = [r \in Runs |-> <<>>]
    /\ opened = [r \in Runs |-> {}]
    /\ result = [r \in Runs |-> NoResult]
    /\ error = [r \in Runs |-> "none"]
    /\ fs = [p \in ProcessedPaths |-> NoFile]
    /\ outfs = [p \in CollagePaths |-> 0]

(* one call of generate_collage, made within one second *)
Init ==
    /\ active = {1}
    /\ \E q \in Requests : req = [r \in Runs |-> q]
    /\ pc = [r \in Runs |-> IF r = 1 THEN "presize" ELSE "idle"]
    /\ clock = MaxClock
    /\ InitCommon
    /\ AgentIdle

ConcRequests ==
    {[r \in Runs |-> IF r = 1 THEN Request(im, l, c1, DefaultSpacing, 1)
                      ELSE Request(im, l, c2, DefaultSpacing, t2)] :
        im \in TwoRunImages(MaxConcImages), l \in ConcLayouts,
        c1 \in TwoRunCanvases, c2 \in TwoRunCanvases, t2 \in TaskIds}

(* two calls of generate_collage running as tasks of one event loop *)
InitConc ==
    /\ active = Runs
    /\ req \in ConcRequests
    /\ pc = [r \in Runs |-> "presize"]
    /\ clock = 0
    /\ InitCommon
    /\ AgentIdle

(* two calls of generate_collage made one after the other, as by the loop   *)
(* of DesignAgent.process_batch_tasks, for two tasks with the same images   *)
(* and the same design specification; the second call is made in the same   *)
(* second as the first or in the next                                       *)
InitBatch ==
    /\ active = {1}
    /\ \E im \in TwoRunImages(MaxBatchImages), l \in BatchLayouts,
          c \in TwoRunCanvases :
          req = [r \in Runs |-> Request(im, l, c, DefaultSpacing, r)]
    /\ pc = [r \in Runs |-> IF r = 1 THEN "presize" ELSE "idle"]
    /\ clock = MaxClock - 1
    /\ InitCommon
    /\ AgentIdle

(* one grid or stacked run on up to MaxLayoutImages copies of an image *)
LayoutImages == {[k \in 1..n |-> src] : n \in 1..MaxLayoutImages, src \in SrcIds}
(* <<output_width, output_height, spacing>> at and between the ends of the *)
(* ranges of DesignRequest                                                  *)
LayoutShapes ==
    Shapes \cup {<<4096, 4096, 0>>, <<4096, 100, 100>>, <<100, 4096, 37>>,
                 <<1023, 517, 3>>}
LayoutRequests ==
    {Request(im, l, <<sh[1], sh[2]>>, sh[3], 1) :
        im \in LayoutImages, l \in {"grid", "stacked"}, sh \in LayoutShapes}

InitLayout ==
    /\ active = {1}
    /\ \E q \in LayoutRequests : req = [r \in Runs |-> q]
    /\ pc = [r \in Runs |-> IF r = 1 THEN "presize" ELSE "idle"]
    /\ clock = MaxClock
    /\ InitCommon
    /\ AgentIdle

(* one mosaic run on up to MaxMosaicImages copies of an image, on canvases  *)
(* that are and are not a whole number of tiles wide and high               *)
MosaicImages == {[k \in 1..n |-> src] : n \in 1..MaxMosaicImages, src \in SrcIds}
MosaicCanvases == {<<100, 100>>, <<105, 105>>, <<4096, 4096>>}
MosaicRequests ==
    {Request(im, "mosaic", c, DefaultSpacing, 1) :
        im \in MosaicImages, c \in MosaicCanvases}

InitMosaic ==
    /\ active = {1}
    /\ \E q \in MosaicRequests : req = [r \in Runs |-> q]
    /\ pc = [r \in Runs |-> IF r = 1 THEN "presize" ELSE "idle"]
    /\ clock = MaxClock
    /\ InitCommon
    /\ AgentIdle

(* one freeform run on up to MaxFreeformImages copies of an image *)
FreeformImages ==
    {[k \in 1..n |-> src] : n \in 1..MaxFreeformImages, src \in SrcIds}
FreeformCanvases == {<<100, 100>>, <<800, 800>>}
FreeformRequests ==
    {Request(im, "freeform", c, DefaultSpacing, 1) :
        im \in FreeformImages, c \in FreeformCanvases}

InitFreeform ==
    /\ active = {1}
    /\ \E q \in FreeformRequests : req = [r \in Runs |-> q]
    /\ pc = [r \in Runs |-> IF r = 1 THEN "presize" ELSE "idle"]
    /\ clock = MaxClock
    /\ InitCommon
    /\ AgentIdle

(* The event loop runs one coroutine at a time and switches only at an      *)
(* await: while a run is inside a layout routine no other run takes a step. *)
MayStep(r) == r \in active /\ \A q \in Runs \ {r} : pc[q] # "layout"

(* ImageProcessor.process_image with resize_mode "fit": open, thumbnail to  *)
(* the target box, save as processed_<id>_<second>.jpg, and describe the    *)
(* saved file by a new ImageInfo, whose id is a new uuid4().                *)
TransformedFile(r, src) ==
    LET box == PreSizeBox(NumImages(r), Width(r), Height(r))
        t == Thumbnail(SrcW(src), SrcH(src), box[1], box[2])
    IN [kind |-> "file", w |-> t[1], h |-> t[2], writer |-> r,
        bw |-> box[1], bh |-> box[2]]

ProcessedImageId(r, i) == FreshId(r, i)

(* variant: the exception of process_image is not caught *)
TransformExcept_reraise(r) == [pc EXCEPT ![r] = "raised"]

(* except Exception in the loop of _process_images_for_collage: warn and   *)
(* continue with the next image                                             *)
TransformExcept(r) == pc

(* datetime.utcnow(): a reading now of the wall clock, in whole seconds,   *)
(* not earlier than the previous reading                                    *)
UtcNow(now) ==
    /\ now \in clock..MaxClock
    /\ clock' = now

(* one iteration of the loop of _process_images_for_collage; readable is    *)
(* whether the source file can be opened and the result saved               *)
ProcessImage(r) ==
    /\ MayStep(r)
    /\ pc[r] = "presize"
    /\ idx[r] < NumImages(r)
    /\ \E now \in 0..MaxClock, readable \in BOOLEAN :
         LET src == req[r].images[idx[r] + 1]
             box == PreSizeBox(NumImages(r), Width(r), Height(r))
             path == ProcessedPath(src, now)
         IN /\ UtcNow(now)
            /\ IF readable /\ ThumbOK(box[1], box[2])
               THEN /\ fs' = [fs EXCEPT ![path] = TransformedFile(r, src)]
                    /\ processed' = [processed EXCEPT ![r] =
                           Append(@, [id |-> ProcessedImageId(r, idx[r]),
                                      file_path |-> path, src |-> src,
                                      reqidx |-> idx[r]])]
                    /\ UNCHANGED tfail
                    /\ pc' = pc
               ELSE /\ tfail' = [tfail EXCEPT ![r] = @ \cup {idx[r]}]
                    /\ pc' = TransformExcept(r)
                    /\ UNCHANGED <<fs, processed>>
    /\ idx' = [idx EXCEPT ![r] = @ + 1]
    /\ UNCHANGED agentVars
    /\ UNCHANGED <<active, req, lfail, canvas, elements, opened, result,
                   error, outfs>>

(* _process_images_for_collage returns; generate_collage dispatches on the  *)
(* layout and the layout routine allocates its canvas (Image.new), or the   *)
(* layout is not supported and ValueError is raised.                        *)
(* variant: the dispatch has no else branch that raises *)
IsSupported_any(layout) == TRUE

IsSupported(layout) == layout \in SupportedLayouts

(* variant: no early return for an empty working set; grid and stacked     *)
(* then divide by len(images) = 0                                           *)
LayoutEntry_noguard(r) ==
    IF processed[r] # <<>> THEN "layout"
    ELSE IF req[r].layout \in {"grid", "stacked"} THEN "raised" ELSE "save"

(* the first statements of a layout routine after Image.new:                *)
(* if not images: return canvas, []                                         *)
LayoutEntry(r) == IF processed[r] = <<>> THEN "save" ELSE "layout"

Dispatch(r) ==
    /\ MayStep(r)
    /\ pc[r] = "presize"
    /\ idx[r] = NumImages(r)
    /\ IF IsSupported(req[r].layout)
       THEN \E allocated \in BOOLEAN :
              IF allocated
              THEN /\ canvas' = [canvas EXCEPT ![r] =
                          [allocated |-> TRUE, width |-> Width(r),
                           height |-> Height(r), pastes |-> 0]]
                   /\ pc' = [pc EXCEPT ![r] = LayoutEntry(r)]
                   /\ UNCHANGED error
              ELSE /\ pc' = [pc EXCEPT ![r] = "raised"]
                   /\ error' = [error EXCEPT ![r] = "canvas"]
                   /\ UNCHANGED canvas
       ELSE /\ pc' = [pc EXCEPT ![r] = "raised"]
            /\ error' = [error EXCEPT ![r] = "unsupported_layout"]
            /\ UNCHANGED canvas
    /\ idx' = [idx EXCEPT ![r] = 0]
    /\ UNCHANGED agentVars
    /\ UNCHANGED <<active, req, processed, tfail, lfail, elements, opened,
                   result, fs, outfs, clock>>

(* the ImageInfo the layout loop is at, and the file its file_path names *)
CurrentImage(r) == processed[r][idx[r] + 1]
CurrentFile(r) == fs[CurrentImage(r).file_path]

CollageElement(image_id, pl, widx) ==
    [image_id |-> image_id, x |-> pl.x, y |-> pl.y, width |-> pl.width,
     height |-> pl.height, widx |-> widx, attempts |-> pl.attempts]

(* variant: the element is appended twice *)
AddElement_twice(els, el) == Append(Append(els, el), el)

(* elements.append(element) *)
AddElement(els, el) == Append(els, el)

(* The body of a layout loop for the image at idx[r]: Image.open succeeds   *)
(* or raises (loads); on success the placement pl is applied.  widx and     *)
(* opened are bookkeeping of the model: the index of the image in the       *)
(* working set, and what was found in the file.                             *)
LoopBody(r, loads, pl) ==
    /\ IF loads
       THEN /\ opened' = [opened EXCEPT ![r] = @ \cup
                   {[widx |-> idx[r], writer |-> CurrentFile(r).writer,
                     bw |-> CurrentFile(r).bw, bh |-> CurrentFile(r).bh]}]
            /\ canvas' = [canvas EXCEPT ![r].pastes =
                              IF pl.pasted THEN @ + 1 ELSE @]
            /\ elements' = [elements EXCEPT ![r] =
                   IF pl.ok
                   THEN AddElement(@, CollageElement(CurrentImage(r).id, pl, idx[r]))
                   ELSE @]
            /\ UNCHANGED lfail
       ELSE /\ lfail' = [lfail EXCEPT ![r] = @ \cup {idx[r]}]
            /\ UNCHANGED <<opened, canvas, elements>>
    /\ idx' = [idx EXCEPT ![r] = @ + 1]
    /\ UNCHANGED agentVars
    /\ UNCHANGED <<active, req, pc, processed, tfail, result, error, fs, outfs,
                   clock>>

InLayout(r, layout) ==
    /\ r \in active
    /\ pc[r] = "layout"
    /\ req[r].layout = layout
    /\ idx[r] < Len(processed[r])

GridStep(r) ==
    /\ InLayout(r, "grid")
    /\ \E loads \in BOOLEAN :
         LoopBody(r, loads,
                  GridPlace(Len(processed[r]), Width(r), Height(r),
                            req[r].spacing, idx[r],
                            CurrentFile(r).w, CurrentFile(r).h))

(* variant: the cursor is kept on the generator and not reset by a run *)
CurrentY_shared(r) ==
    LET own == elements[r]
        prev == IF r - 1 \in Runs THEN elements[r - 1] ELSE <<>>
        els == IF own # <<>> THEN own ELSE prev
    IN IF els = <<>> THEN 0
       ELSE els[Len(els)].y + els[Len(els)].height + req[r].spacing

(* variant: the cursor advances by the nominal image height for every      *)
(* image, placed or not                                                     *)
CurrentY_nominal(r) ==
    idx[r] * (StackedImageHeight(Len(processed[r]), Height(r), req[r].spacing)
              + req[r].spacing)

(* current_y: 0, then below the last placed element *)
CurrentY(r) ==
    IF elements[r] = <<>> THEN 0
    ELSE LET last == elements[r][Len(elements[r])]
         IN last.y + last.height + req[r].spacing

StackedStep(r) ==
    /\ InLayout(r, "stacked")
    /\ \E loads \in BOOLEAN :
         LoopBody(r, loads,
                  StackedPlace(Len(processed[r]), Width(r), Height(r),
                               req[r].spacing, CurrentY(r),
                               CurrentFile(r).w, CurrentFile(r).h))

CircularStep(r) ==
    /\ InLayout(r, "circular")
    /\ \E loads \in BOOLEAN :
         LoopBody(r, loads,
                  CircularPlace(Len(processed[r]), Width(r), Height(r), idx[r],
                                CurrentFile(r).w, CurrentFile(r).h))

(* used_positions: a position is appended right after the paste, and the    *)
(* element right after that, so the two lists stay in step                  *)
UsedPositions(r) ==
    [k \in 1..Len(elements[r]) |-> <<elements[r][k].x, elements[r][k].y>>]

(* One image of the freeform layout.  The sampling loop ends with the first *)
(* candidate that passes the proximity test or with the 50th candidate.     *)
(* random.randint raises on an empty range.                                 *)
(* fine selects the draws the model explores: the ends and the middles of   *)
(* the ranges and a late first pass, or the ends and an immediate pass.     *)
FreeformBody(r, fine) ==
    /\ InLayout(r, "freeform")
    /\ \E loads \in BOOLEAN, max_size \in FreeformSizes :
         LET t == Thumbnail(CurrentFile(r).w, CurrentFile(r).h, max_size, max_size)
             xs == IF fine THEN FineSamples(Width(r) - t[1])
                   ELSE RandSamples(Width(r) - t[1])
             ys == IF fine THEN FineSamples(Height(r) - t[2])
                   ELSE RandSamples(Height(r) - t[2])
             tries == IF fine THEN AttemptSamples ELSE FirstTry
         IN IF Width(r) - t[1] < 0 \/ Height(r) - t[2] < 0
            THEN LoopBody(r, loads, NoPlacement)
            ELSE \E pl \in FreeformLoop(t[1], t[2], xs, ys, tries,
                                        UsedPositions(r)) :
                   LoopBody(r, loads, pl)

FreeformStep(r) == FreeformBody(r, FALSE)

FreeformStepFine(r) == FreeformBody(r, TRUE)

(* variant: a tile whose image failed to load is filled by the next image  *)
MosaicCellIndex_filled(r) == Len(elements[r])

(* the position in the scan of the cell that takes the image at             *)
(* image_index: every earlier cell took one image, placed or not, because   *)
(* image_index advances in the try block and in the except block alike      *)
MosaicCellIndex(r) == idx[r]

MosaicStep(r) ==
    /\ InLayout(r, "mosaic")
    /\ idx[r] < MosaicCells(Width(r), Height(r))
    /\ \E loads \in BOOLEAN :
         LoopBody(r, loads,
                  MosaicPlace(Width(r), Height(r), MosaicCellIndex(r),
                              CurrentFile(r).w, CurrentFile(r).h))

(* the layout routine returns (canvas, elements) *)
LayoutDone(r) ==
    \/ idx[r] = Len(processed[r])
    \/ req[r].layout = "mosaic" /\ idx[r] >= MosaicCells(Width(r), Height(r))

LayoutReturn(r) ==
    /\ r \in active
    /\ pc[r] = "layout"
    /\ LayoutDone(r)
    /\ pc' = [pc EXCEPT ![r] = "save"]
    /\ UNCHANGED agentVars
    /\ UNCHANGED <<active, req, idx, processed, tfail, lfail, canvas, elements,
                   opened, result, error, fs, outfs, clock>>

(* images_used=[img.id for img in processed_images] *)
ImagesUsed(r) == [k \in 1..Len(processed[r]) |-> processed[r][k].id]

CollageGenerationResult(r, path) ==
    [kind |-> "result", task_id |-> req[r].task_id, output_file_path |-> path,
     output_width |-> Width(r), output_height |-> Height(r),
     images_used |-> ImagesUsed(r), layout_used |-> req[r].layout,
     elements |-> elements[r], images_count |-> Len(processed[r])]

(* _save_collage and the return of generate_collage; written is whether     *)
(* the JPEG could be encoded and written                                    *)
SaveCollage(r) ==
    /\ MayStep(r)
    /\ pc[r] = "save"
    /\ \E now \in 0..MaxClock, written \in BOOLEAN :
         LET path == CollagePath(req[r].task_id, now)
         IN /\ UtcNow(now)
            /\ IF written
               THEN /\ outfs' = [outfs EXCEPT ![path] = @ + 1]
                    /\ result' = [result EXCEPT ![r] =
                                      CollageGenerationResult(r, path)]
                    /\ pc' = [pc EXCEPT ![r] = "done"]
                    /\ UNCHANGED error
               ELSE /\ pc' = [pc EXCEPT ![r] = "raised"]
                    /\ error' = [error EXCEPT ![r] = "canvas"]
                    /\ UNCHANGED <<outfs, result>>
    /\ UNCHANGED agentVars
    /\ UNCHANGED <<active, req, idx, processed, tfail, lfail, canvas, elements,
                   opened, fs>>

(* the loop of process_batch_tasks goes on to the next task once the call   *)
(* for the previous one has returned or raised                              *)
NextTask(r) ==
    /\ r \in Runs \ active
    /\ r - 1 \in active
    /\ pc[r - 1] \in {"done", "raised"}
    /\ active' = active \cup {r}
    /\ pc' = [pc EXCEPT ![r] = "presize"]
    /\ UNCHANGED agentVars
    /\ UNCHANGED <<req, idx, processed, tfail, lfail, canvas, elements, opened,
                   result, error, fs, outfs, clock>>

-----------------------------------------------------------------------------
(* The task lifecycle.  The coroutines of different tasks interleave at the *)
(* await expressions of the handlers, at asyncio.create_task and at the     *)
(* start of a background task.  Inside process_task the run of              *)
(* generate_collage is the state machine above; here it is one call that    *)
(* is entered and later returns a result or raises.                         *)

(* no run of generate_collage is modelled in detail *)
CollageIdle ==
    /\ active = {}
    /\ req = [r \in Runs |-> Request(<<>>, "grid", <<100, 100>>, 0, 1)]
    /\ pc = [r \in Runs |-> "idle"]
    /\ clock = 0
    /\ InitCommon

(* the tasks a caller can construct; both HTTP routes that create a task    *)
(* give it a DesignSpecification                                            *)
TaskChoices(entries, shapes) ==
    {tk \in {Task(e, sh[1], sh[2], sh[3]) : e \in entries, sh \in shapes} :
        tk.entry = "http" => tk.has_spec}

InitAgentCommon ==
    /\ task_storage = {}
    /\ current_tasks = {}
    /\ engine_called = [t \in Tasks |-> FALSE]
    /\ reported = [t \in Tasks |-> "none"]
    /\ agent_status = "online"
    /\ rel_import_ok \in BOOLEAN
    /\ performance_metrics = NoMetrics
    /\ CollageIdle

(* MaxApiTasks tasks, each taking one of the entry paths; main.py has       *)
(* started the agent                                                        *)
InitTasks ==
    /\ tasks \in {f \in [Tasks -> TaskChoices(EntryPaths, TaskShapes) \cup {NoTask}] :
                    \A t \in Tasks : (f[t] = NoTask) <=> (t > MaxApiTasks)}
    /\ tpc = [t \in Tasks |-> IF t > MaxApiTasks THEN "none" ELSE "new"]
    /\ InitAgentCommon

(* one task more than the agent's capacity, all handed to assign_task *)
AgentTasks == 1..(MaxConcurrentTasks + 1)
AgentShapes == {<<1, TRUE, TRUE>>, <<1, TRUE, FALSE>>}

InitAgent ==
    /\ tasks \in {f \in [Tasks -> TaskChoices({"agent"}, AgentShapes) \cup {NoTask}] :
                    \A t \in Tasks : (f[t] = NoTask) <=> (t \notin AgentTasks)}
    /\ tpc = [t \in Tasks |-> IF t \in AgentTasks THEN "new" ELSE "none"]
    /\ InitAgentCommon

(* the outcome of the call of generate_collage inside process_task *)
EngineOutcomes == {"returned", "raised"}

(* _create_design_request: its function-level relative import resolves or   *)
(* raises ImportError, depending on the package the module was loaded in    *)
CreateDesignRequestOK(t) == rel_import_ok

(* routes.upload_images / routes.generate_design: store the task and        *)
(* schedule process_design_task                                            *)
SubmitDesign(t) ==
    /\ tasks[t].entry = "http"
    /\ tpc[t] = "new"
    /\ task_storage' = task_storage \cup {t}
    /\ tpc' = [tpc EXCEPT ![t] = "bg_scheduled"]
    /\ UNCHANGED <<tasks, current_tasks, engine_called, reported,
                   agent_status, rel_import_ok,
                   performance_metrics>>
    /\ UNCHANGED collageVars

(* process_design_task up to the return of await validate_task *)
ProcessDesignTaskValidate(t) ==
    /\ tpc[t] = "bg_scheduled"
    /\ t \in task_storage
    /\ IF ValidateTask(tasks[t])
       THEN /\ tpc' = [tpc EXCEPT ![t] = "bg_validated"]
            /\ UNCHANGED <<tasks, reported>>
       ELSE /\ tasks' = [tasks EXCEPT ![t] = UpdateStatus(@, "failed")]
            /\ reported' = [reported EXCEPT ![t] = "failed"]
            /\ tpc' = [tpc EXCEPT ![t] = "done"]
    /\ UNCHANGED <<task_storage, current_tasks, engine_called, agent_status, rel_import_ok,
                   performance_metrics>>
    /\ UNCHANGED collageVars

(* process_design_task: process_task builds the request and enters          *)
(* generate_collage; an ImportError goes to the except of the handler       *)
ProcessDesignTaskCall(t) ==
    /\ tpc[t] = "bg_validated"
    /\ IF CreateDesignRequestOK(t)
       THEN /\ engine_called' = [engine_called EXCEPT ![t] = TRUE]
            /\ tpc' = [tpc EXCEPT ![t] = "bg_engine"]
            /\ UNCHANGED <<tasks, reported>>
       ELSE /\ tasks' = [tasks EXCEPT ![t] = UpdateStatus(@, "failed")]
            /\ reported' = [reported EXCEPT ![t] = "failed"]
            /\ tpc' = [tpc EXCEPT ![t] = "done"]
            /\ UNCHANGED engine_called
    /\ UNCHANGED <<task_storage, current_tasks, agent_status, rel_import_ok,
                   performance_metrics>>
    /\ UNCHANGED collageVars

(* process_design_task: generate_collage returns and process_task sets      *)
(* task.result, or it raises and the handler records FAILED                 *)
ProcessDesignTaskReturn(t) ==
    /\ tpc[t] = "bg_engine"
    /\ \E outcome \in EngineOutcomes :
         IF outcome = "returned"
         THEN /\ tasks' = [tasks EXCEPT ![t].result = TRUE]
              /\ reported' = [reported EXCEPT ![t] = "succeeded"]
         ELSE /\ tasks' = [tasks EXCEPT ![t] = UpdateStatus(@, "failed")]
              /\ reported' = [reported EXCEPT ![t] = "failed"]
    /\ tpc' = [tpc EXCEPT ![t] = "done"]
    /\ UNCHANGED <<task_storage, current_tasks, engine_called, agent_status, rel_import_ok,
                   performance_metrics>>
    /\ UNCHANGED collageVars

(* routes.cancel_task *)
CancelTaskRoute(t) ==
    /\ t \in task_storage
    /\ tasks[t].status \notin FinalStatuses
    /\ tasks' = [tasks EXCEPT ![t] = UpdateStatus(@, "cancelled")]
    /\ UNCHANGED <<task_storage, current_tasks, tpc, engine_called, reported,
                   agent_status, rel_import_ok,
                   performance_metrics>>
    /\ UNCHANGED collageVars

(* assign_task up to its await of validate_task: the capacity check *)
AssignTaskCheck(t) ==
    /\ tasks[t].entry = "agent"
    /\ tpc[t] = "new"
    /\ IF Cardinality(current_tasks) >= MaxConcurrentTasks
       THEN /\ tasks' = [tasks EXCEPT ![t] = RejectedTask(@)]
            /\ reported' = [reported EXCEPT ![t] = "rejected"]
            /\ tpc' = [tpc EXCEPT ![t] = "done"]
       ELSE /\ tpc' = [tpc EXCEPT ![t] = "as_validating"]
            /\ UNCHANGED <<tasks, reported>>
    /\ UNCHANGED <<task_storage, current_tasks, engine_called,
                   agent_status, rel_import_ok, performance_metrics>>
    /\ UNCHANGED collageVars

(* assign_task from the return of validate_task: register the task, mark    *)
(* it IN_PROGRESS and create the wrapper task                               *)
AssignTaskRegister(t) ==
    /\ tpc[t] = "as_validating"
    /\ IF ValidateTask(tasks[t])
       THEN /\ current_tasks' = current_tasks \cup {t}
            /\ tasks' = [tasks EXCEPT ![t] = UpdateStatus(@, "in_progress")]
            /\ reported' = [reported EXCEPT ![t] = "accepted"]
            /\ tpc' = [tpc EXCEPT ![t] = "wr_scheduled"]
       ELSE /\ tasks' = [tasks EXCEPT ![t] = RejectedTask(@)]
            /\ reported' = [reported EXCEPT ![t] = "rejected"]
            /\ tpc' = [tpc EXCEPT ![t] = "done"]
            /\ UNCHANGED current_tasks
    /\ UNCHANGED <<task_storage, engine_called, agent_status, rel_import_ok,
                   performance_metrics>>
    /\ UNCHANGED collageVars

(* _process_task_wrapper starts: process_task builds the request and        *)
(* enters generate_collage; an ImportError goes to except and finally       *)
ProcessTaskWrapperStart(t) ==
    /\ tpc[t] = "wr_scheduled"
    /\ IF CreateDesignRequestOK(t)
       THEN /\ engine_called' = [engine_called EXCEPT ![t] = TRUE]
            /\ tpc' = [tpc EXCEPT ![t] = "wr_engine"]
            /\ UNCHANGED <<tasks, current_tasks, performance_metrics>>
       ELSE /\ tasks' = [tasks EXCEPT ![t] = UpdateStatus(@, "failed")]
            /\ performance_metrics' =
                   UpdatePerformanceMetrics(performance_metrics, FALSE)
            /\ current_tasks' = current_tasks \ {t}
            /\ tpc' = [tpc EXCEPT ![t] = "done"]
            /\ UNCHANGED engine_called
    /\ UNCHANGED <<task_storage, reported, agent_status, rel_import_ok>>
    /\ UNCHANGED collageVars

(* _process_task_wrapper: process_task returned (COMPLETED) or raised       *)
(* (FAILED); finally the task leaves _current_tasks                         *)
ProcessTaskWrapperFinish(t) ==
    /\ tpc[t] = "wr_engine"
    /\ \E outcome \in EngineOutcomes :
         /\ tasks' = [tasks EXCEPT ![t] =
                         IF outcome = "returned"
                         THEN UpdateStatus([@ EXCEPT !.result = TRUE], "completed")
                         ELSE UpdateStatus(@, "failed")]
         /\ performance_metrics' =
                UpdatePerformanceMetrics(performance_metrics,
                                         outcome = "returned")
    /\ current_tasks' = current_tasks \ {t}
    /\ tpc' = [tpc EXCEPT ![t] = "done"]
    /\ UNCHANGED <<task_storage, engine_called, reported, agent_status,
                   rel_import_ok>>
    /\ UNCHANGED collageVars

(* BaseAgent._cancel_task applied to the tasks of ts that the agent holds *)
CancelTasks(ts) ==
    /\ tasks' = [t \in Tasks |->
                    IF t \in ts \cap current_tasks
                    THEN UpdateStatus(tasks[t], "cancelled") ELSE tasks[t]]
    /\ current_tasks' = current_tasks \ ts

(* _handle_task_cancellation for a task the agent holds *)
HandleTaskCancellation(t) ==
    /\ t \in current_tasks
    /\ CancelTasks({t})
    /\ UNCHANGED <<task_storage, tpc, engine_called, reported, agent_status, rel_import_ok,
                   performance_metrics>>
    /\ UNCHANGED collageVars

(* BaseAgent.stop *)
Stop ==
    /\ agent_status = "online"
    /\ agent_status' = "offline"
    /\ CancelTasks(current_tasks)
    /\ UNCHANGED <<task_storage, tpc, engine_called, reported,
                   rel_import_ok, performance_metrics>>
    /\ UNCHANGED collageVars

(* process_batch_tasks handles its tasks one after the other, in order *)
BatchTurn(t) ==
    /\ tasks[t].entry = "batch"
    /\ \A u \in Tasks :
         (u < t /\ tasks[u].entry = "batch") => tpc[u] = "done"

(* process_batch_tasks up to the return of await validate_task *)
ProcessBatchTasksValidate(t) ==
    /\ BatchTurn(t)
    /\ tpc[t] = "new"
    /\ IF ValidateTask(tasks[t])
       THEN /\ tpc' = [tpc EXCEPT ![t] = "batch_validated"]
            /\ UNCHANGED reported
       ELSE /\ reported' = [reported EXCEPT ![t] = "failed"]
            /\ tpc' = [tpc EXCEPT ![t] = "done"]
    /\ UNCHANGED <<tasks, task_storage, current_tasks, engine_called,
                   agent_status, rel_import_ok,
                   performance_metrics>>
    /\ UNCHANGED collageVars

(* process_batch_tasks: process_task builds the request and enters          *)
(* generate_collage; an ImportError is recorded as a failed entry           *)
ProcessBatchTasksCall(t) ==
    /\ tpc[t] = "batch_validated"
    /\ IF CreateDesignRequestOK(t)
       THEN /\ engine_called' = [engine_called EXCEPT ![t] = TRUE]
            /\ tpc' = [tpc EXCEPT ![t] = "batch_engine"]
            /\ UNCHANGED reported
       ELSE /\ reported' = [reported EXCEPT ![t] = "failed"]
            /\ tpc' = [tpc EXCEPT ![t] = "done"]
            /\ UNCHANGED engine_called
    /\ UNCHANGED <<tasks, task_storage, current_tasks, agent_status, rel_import_ok,
                   performance_metrics>>
    /\ UNCHANGED collageVars

(* process_batch_tasks: the entry of the task in the list of results *)
ProcessBatchTasksReturn(t) ==
    /\ tpc[t] = "batch_engine"
    /\ \E outcome \in EngineOutcomes :
         IF outcome = "returned"
         THEN /\ tasks' = [tasks EXCEPT ![t].result = TRUE]
              /\ reported' = [reported EXCEPT ![t] = "succeeded"]
         ELSE /\ reported' = [reported EXCEPT ![t] = "failed"]
              /\ UNCHANGED tasks
    /\ tpc' = [tpc EXCEPT ![t] = "done"]
    /\ UNCHANGED <<task_storage, current_tasks, engine_called, agent_status, rel_import_ok,
                   performance_metrics>>
    /\ UNCHANGED collageVars

Next ==
    \/ \E r \in Runs : ProcessImage(r)
    \/ \E r \in Runs : Dispatch(r)
    \/ \E r \in Runs : GridStep(r)
    \/ \E r \in Runs : StackedStep(r)
    \/ \E r \in Runs : CircularStep(r)
    \/ \E r \in Runs : FreeformStep(r)
    \/ \E r \in Runs : MosaicStep(r)
    \/ \E r \in Runs : LayoutReturn(r)
    \/ \E r \in Runs : SaveCollage(r)

NextConc ==
    \/ \E r \in Runs : ProcessImage(r)
    \/ \E r \in Runs : Dispatch(r)
    \/ \E r \in Runs : GridStep(r)
    \/ \E r \in Runs : StackedStep(r)
    \/ \E r \in Runs : LayoutReturn(r)
    \/ \E r \in Runs : SaveCollage(r)

NextBatch ==
    \/ \E r \in Runs : ProcessImage(r)
    \/ \E r \in Runs : Dispatch(r)
    \/ \E r \in Runs : GridStep(r)
    \/ \E r \in Runs : StackedStep(r)
    \/ \E r \in Runs : CircularStep(r)
    \/ \E r \in Runs : MosaicStep(r)
    \/ \E r \in Runs : LayoutReturn(r)
    \/ \E r \in Runs : SaveCollage(r)
    \/ \E r \in Runs : NextTask(r)

NextLayout ==
    \/ \E r \in Runs : ProcessImage(r)
    \/ \E r \in Runs : Dispatch(r)
    \/ \E r \in Runs : GridStep(r)
    \/ \E r \in Runs : StackedStep(r)
    \/ \E r \in Runs : LayoutReturn(r)
    \/ \E r \in Runs : SaveCollage(r)

(* the images of run r that failed so far, in pre-sizing or on loading *)
Faults(r) == Cardinality(tfail[r]) + Cardinality(lfail[r])
WithinMosaicFaults == \A r \in Runs : Faults(r) <= MaxMosaicFaults

(* a mosaic run in which at most MaxMosaicFaults images fail *)
NextMosaic ==
    \/ \E r \in Runs : ProcessImage(r) /\ WithinMosaicFaults'
    \/ \E r \in Runs : Dispatch(r)
    \/ \E r \in Runs : MosaicStep(r) /\ WithinMosaicFaults'
    \/ \E r \in Runs : LayoutReturn(r)
    \/ \E r \in Runs : SaveCollage(r)

NextFreeform ==
    \/ \E r \in Runs : ProcessImage(r)
    \/ \E r \in Runs : Dispatch(r)
    \/ \E r \in Runs : FreeformStepFine(r)
    \/ \E r \in Runs : LayoutReturn(r)
    \/ \E r \in Runs : SaveCollage(r)

NextAgent ==
    \/ \E t \in Tasks : AssignTaskCheck(t)
    \/ \E t \in Tasks : AssignTaskRegister(t)
    \/ \E t \in Tasks : ProcessTaskWrapperStart(t)
    \/ \E t \in Tasks : ProcessTaskWrapperFinish(t)
    \/ \E t \in Tasks : HandleTaskCancellation(t)
    \/ Stop

NextTasks ==
    \/ \E t \in Tasks : SubmitDesign(t)
    \/ \E t \in Tasks : ProcessDesignTaskValidate(t)
    \/ \E t \in Tasks : ProcessDesignTaskCall(t)
    \/ \E t \in Tasks : ProcessDesignTaskReturn(t)
    \/ \E t \in Tasks : CancelTaskRoute(t)
    \/ \E t \in Tasks : AssignTaskCheck(t)
    \/ \E t \in Tasks : AssignTaskRegister(t)
    \/ \E t \in Tasks : ProcessTaskWrapperStart(t)
    \/ \E t \in Tasks : ProcessTaskWrapperFinish(t)
    \/ \E t \in Tasks : HandleTaskCancellation(t)
    \/ Stop
    \/ \E t \in Tasks : ProcessBatchTasksValidate(t)
    \/ \E t \in Tasks : ProcessBatchTasksCall(t)
    \/ \E t \in Tasks : ProcessBatchTasksReturn(t)

(* a background task that was scheduled runs, and runs to its end *)
BackgroundFairness ==
    \A t \in Tasks :
        /\ WF_vars(ProcessDesignTaskValidate(t))
        /\ WF_vars(ProcessDesignTaskCall(t))
        /\ WF_vars(ProcessDesignTaskReturn(t))

Spec == Init /\ [][Next]_vars
SpecLayout == InitLayout /\ [][NextLayout]_vars
SpecMosaic == InitMosaic /\ [][NextMosaic]_vars
SpecFreeform == InitFreeform /\ [][NextFreeform]_vars
SpecAgent == InitAgent /\ [][NextAgent]_vars
SpecTasks == InitTasks /\ [][NextTasks]_vars
SpecTasksFair == InitTasks /\ [][NextTasks]_vars /\ BackgroundFairness
SpecConc == InitConc /\ [][NextConc]_vars
SpecBatch == InitBatch /\ [][NextBatch]_vars

TypeOK ==
    /\ active \subseteq Runs
    /\ \A r \in Runs :
         /\ pc[r] \in {"idle", "presize", "layout", "save", "done", "raised"}
         /\ idx[r] \in 0..MaxLen
         /\ Len(processed[r]) <= NumImages(r)
    /\ clock \in 0..MaxClock
    /\ task_storage \subseteq Tasks
    /\ current_tasks \subseteq Tasks
    /\ \A t \in Tasks :
         /\ tasks[t].status \in TaskStatuses
         /\ tpc[t] \in {"none", "new", "bg_scheduled", "bg_validated",
                        "bg_engine", "as_validating", "wr_scheduled",
                        "wr_engine", "batch_validated", "batch_engine", "done"}
         /\ reported[t] \in {"none", "accepted", "rejected", "succeeded",
                             "failed"}
    /\ agent_status \in {"offline", "online"}
    /\ performance_metrics.task_count \in 0..Cardinality(Tasks)
    /\ performance_metrics.success_count \in 0..Cardinality(Tasks)

-----------------------------------------------------------------------------
(* Properties *)

Done(r) == pc[r] = "done"
Raised(r) == pc[r] = "raised"
RequestIds(r) == Range(req[r].images)
ElementIds(els) == {els[k].image_id : k \in 1..Len(els)}

(* every requested image failed: in pre-sizing, or when the layout opened it *)
AllImagesFailed(r) ==
    \A i \in 0..(NumImages(r) - 1) :
        \/ i \in tfail[r]
        \/ \E k \in 1..Len(processed[r]) :
              processed[r][k].reqidx = i /\ (k - 1) \in lfail[r]

(* C1: generate_collage never raises because of a per-image fault: a run    *)
(* that raised did so for an unsupported layout (exactly when the layout is *)
(* unsupported) or for a canvas allocate/encode/write failure and returned  *)
(* no result; a run that finished returned a result, and when every image   *)
(* failed that result has no elements.                                      *)
C1_ToleratesImageFaults ==
    \A r \in Runs :
        /\ Raised(r) =>
              /\ error[r] \in {"unsupported_layout", "canvas"}
              /\ (error[r] = "unsupported_layout") <=>
                     (req[r].layout \notin SupportedLayouts)
              /\ result[r] = NoResult
        /\ Done(r) => result[r].kind = "result"
        /\ (Done(r) /\ AllImagesFailed(r)) => result[r].elements = <<>>

(* a run returned a result although one image failed to transform, another  *)
(* failed to load, and a third was placed                                   *)
C1_Witness ==
    \E r \in Runs :
        /\ Done(r)
        /\ tfail[r] # {}
        /\ lfail[r] # {}
        /\ result[r].elements # <<>>

(* C2: for every layout the number of elements, at every moment and in the  *)
(* result, is at most the number of images of the request.                  *)
C2_ElementsAtMostImages ==
    \A r \in Runs :
        /\ Len(elements[r]) <= NumImages(r)
        /\ Done(r) => Len(result[r].elements) <= NumImages(r)

(* a result with all the images of a three-image request placed *)
C2_Witness ==
    \E r \in Runs :
        /\ Done(r)
        /\ NumImages(r) >= 3
        /\ Len(result[r].elements) = NumImages(r)

(* C3: for every layout and every request within the DesignRequest ranges,  *)
(* when every image transforms and loads the result has as many elements    *)
(* as the request has images.                                               *)
C3_AllReadableAllPlaced ==
    \A r \in Runs :
        (Done(r) /\ tfail[r] = {} /\ lfail[r] = {}) =>
            Len(result[r].elements) = NumImages(r)

(* C4: an id is in images_used if and only if some element of the result    *)
(* has that image_id.                                                       *)
C4_ImagesUsedArePlaced ==
    \A r \in Runs :
        Done(r) => Range(result[r].images_used) = ElementIds(result[r].elements)

(* C5: every id in images_used and every element's image_id is the id of    *)
(* an image of the request.                                                 *)
C5_IdsAreRequestIds ==
    \A r \in Runs :
        Done(r) =>
            /\ Range(result[r].images_used) \subseteq RequestIds(r)
            /\ ElementIds(result[r].elements) \subseteq RequestIds(r)

(* C6: with an unsupported layout the run gets no further than pre-sizing:  *)
(* it raises the unsupported-layout error, no canvas is allocated, no       *)
(* layout routine runs (no file opened, no element) and no collage file is  *)
(* written.                                                                 *)
C6_UnsupportedLayoutIsFatal ==
    \A r \in active :
        req[r].layout \notin SupportedLayouts =>
            /\ pc[r] \in {"presize", "raised"}
            /\ Raised(r) => error[r] = "unsupported_layout"
            /\ canvas[r] = NoCanvas
            /\ elements[r] = <<>>
            /\ opened[r] = {}
            /\ result[r] = NoResult
            /\ \A p \in CollagePaths : outfs[p] = 0

(* a run with an unsupported layout raised after pre-sizing its images *)
C6_Witness ==
    \E r \in active :
        /\ req[r].layout \notin SupportedLayouts
        /\ Raised(r)
        /\ processed[r] # <<>>

(* C7: for every supported layout a request without images raises only on   *)
(* a canvas-level failure, and otherwise returns a result with no elements  *)
(* and no images_used, on a canvas of the requested size with no paste.     *)
C7_ZeroImages ==
    \A r \in active :
        (NumImages(r) = 0 /\ req[r].layout \in SupportedLayouts) =>
            /\ Raised(r) => error[r] = "canvas"
            /\ elements[r] = <<>>
            /\ canvas[r].pastes = 0
            /\ Done(r) =>
                  /\ result[r].elements = <<>>
                  /\ result[r].images_used = <<>>
                  /\ canvas[r] = [allocated |-> TRUE, width |-> Width(r),
                                  height |-> Height(r), pastes |-> 0]
                  /\ result[r].output_width = Width(r)
                  /\ result[r].output_height = Height(r)

(* a request without images returned its result *)
C7_Witness ==
    \E r \in active : NumImages(r) = 0 /\ Done(r) /\ canvas[r].allocated

(* positions and sizes of an element list, in order *)
Geometry(els) ==
    [k \in 1..Len(els) |-> <<els[k].x, els[k].y, els[k].width, els[k].height>>]

SameInputs(r1, r2) ==
    /\ req[r1].images = req[r2].images
    /\ req[r1].layout = req[r2].layout
    /\ Width(r1) = Width(r2)
    /\ Height(r1) = Height(r2)
    /\ req[r1].spacing = req[r2].spacing

(* C8: for grid, stacked, circular and mosaic, two runs on the same images, *)
(* canvas size, spacing and layout in which the same images fail return     *)
(* element lists with the same positions and sizes in the same order.       *)
C8_SameInputsSameElements ==
    \A r1, r2 \in Runs :
        (/\ Done(r1) /\ Done(r2)
         /\ SameInputs(r1, r2)
         /\ req[r1].layout \in BatchLayouts
         /\ tfail[r1] = tfail[r2]
         /\ lfail[r1] = lfail[r2]) =>
            Geometry(result[r1].elements) = Geometry(result[r2].elements)

(* two runs returned, each with a failed load and a placed element, and     *)
(* wrote different files                                                    *)
C8_Witness ==
    /\ Done(1) /\ Done(2)
    /\ SameInputs(1, 2)
    /\ tfail[1] = tfail[2]
    /\ lfail[1] = lfail[2]
    /\ lfail[1] # {}
    /\ result[1].elements # <<>>
    /\ result[1].output_file_path # result[2].output_file_path

(* C9: any two runs that persisted a collage returned different paths.      *)
C9_DistinctOutputPaths ==
    \A r1, r2 \in Runs :
        (r1 # r2 /\ Done(r1) /\ Done(r2)) =>
            result[r1].output_file_path # result[r2].output_file_path

(* C10: every file a run's layout opens was written by that run's own       *)
(* pre-sizing, with that run's target box.                                  *)
C10_LayoutOpensOwnFile ==
    \A r \in Runs :
        \A o \in opened[r] :
            /\ o.writer = r
            /\ <<o.bw, o.bh>> = PreSizeBox(NumImages(r), Width(r), Height(r))

-----------------------------------------------------------------------------
(* Properties of the task lifecycle *)

StatusOf(t) == tasks[t].status

(* the status changes the lifecycle allows *)
StatusSteps ==
    {<<"pending", "in_progress">>, <<"pending", "failed">>,
     <<"pending", "cancelled">>, <<"in_progress", "completed">>,
     <<"in_progress", "failed">>, <<"in_progress", "cancelled">>}

(* C11: a task's status changes only along pending -> in_progress ->        *)
(* completed | failed | cancelled (a pending task may also be failed or     *)
(* cancelled at once), and no step changes a status that is completed,      *)
(* failed or cancelled.                                                     *)
C11_FinalStatusesAbsorbing ==
    [][\A t \in Tasks :
          /\ StatusOf(t) \in FinalStatuses => tasks'[t].status = StatusOf(t)
          /\ tasks'[t].status # StatusOf(t) =>
                <<StatusOf(t), tasks'[t].status>> \in StatusSteps]_vars

EngineRunning(t) == tpc[t] \in {"bg_engine", "wr_engine", "batch_engine"}

(* C13: once a task is cancelled before generate_collage was invoked for    *)
(* it, generate_collage is never invoked for it and it stays cancelled; a   *)
(* task cancelled while generate_collage runs for it ends its run as        *)
(* completed or failed.                                                     *)
C13_CancelBeforeStartPreventsRun ==
    [][\A t \in Tasks :
          /\ (StatusOf(t) = "cancelled" /\ ~engine_called[t]) =>
                (~engine_called'[t] /\ tasks'[t].status = "cancelled")
          /\ (StatusOf(t) = "cancelled" /\ EngineRunning(t)
                 /\ tpc'[t] = "done") =>
                tasks'[t].status \in {"completed", "failed"}]_vars

(* the task wrappers that were created and have not finished *)
RunningWrappers == {t \in Tasks : tpc[t] \in {"wr_scheduled", "wr_engine"}}

(* C14: the agent never holds more tasks than max_concurrent_tasks and      *)
(* never has more running task wrappers than that.                          *)
C14_WithinCapacity ==
    /\ Cardinality(current_tasks) <= MaxConcurrentTasks
    /\ Cardinality(RunningWrappers) <= MaxConcurrentTasks

(* more than 20 images, no design specification, or a missing or invalid    *)
(* image file                                                               *)
Rejectable(tk) ==
    \/ tk.nimages > 20
    \/ ~tk.has_spec
    \/ ~tk.files_valid

(* C15: for a task with more than 20 images, without design specification   *)
(* or with an invalid image file, on every entry path generate_collage is   *)
(* never invoked, and when the path has handled the task it reported it     *)
(* rejected (assign_task) or failed (batch entry, FAILED status for the     *)
(* background processing).                                                  *)
C15_InvalidTaskNeverReachesEngine ==
    \A t \in Tasks :
        (tasks[t].entry \in EntryPaths /\ Rejectable(tasks[t])) =>
            /\ ~engine_called[t]
            /\ tpc[t] \in {"new", "bg_scheduled", "as_validating", "done"}
            /\ tpc[t] = "done" =>
                  /\ reported[t] =
                        IF tasks[t].entry = "agent" THEN "rejected" ELSE "failed"
                  /\ tasks[t].entry = "http" => StatusOf(t) = "failed"

(* the background processing failed a stored task that has 21 images *)
C15_Witness ==
    \E t \in Tasks :
        /\ tasks[t].entry = "http"
        /\ tasks[t].nimages > 20
        /\ tpc[t] = "done"
        /\ StatusOf(t) = "failed"

-----------------------------------------------------------------------------
(* Properties of pre-sizing and of the grid and stacked layouts *)

(* the box of the pre-sizing as documented: the request's spacing between   *)
(* the cells, each side at least 1                                          *)
DocumentedBox(n, W, H, sp) ==
    LET cols == IF n <= 4 THEN 2 ELSE IF n <= 9 THEN 3 ELSE CeilSqrt(n)
        rows == IF n <= 4 THEN 2 ELSE IF n <= 9 THEN 3 ELSE CeilDiv(n, cols)
    IN <<Max(1, (W - sp * (cols - 1)) \div cols),
         Max(1, (H - sp * (rows - 1)) \div rows)>>

(* C16: every file written by the pre-sizing of a run was fitted into the   *)
(* box computed from the number of images, the canvas size and the          *)
(* request's spacing: (2,2) cells up to 4 images, (3,3) up to 9, else       *)
(* ceil(sqrt(n)) columns; each side floored and at least 1.                 *)
C16_PreSizeBoxUsesRequestSpacing ==
    \A p \in ProcessedPaths :
        fs[p].kind = "file" =>
            LET r == fs[p].writer
            IN <<fs[p].bw, fs[p].bh>> =
                   DocumentedBox(NumImages(r), Width(r), Height(r),
                                 req[r].spacing)

(* the cell of the grid for index i of a working set of size m: its origin  *)
(* and its size                                                             *)
GridCell(m, W, H, sp, i) ==
    LET cols == CeilSqrt(m)
        rows == CeilDiv(m, cols)
        cw == (W - sp * (cols - 1)) \div cols
        ch == (H - sp * (rows - 1)) \div rows
    IN [x |-> (i % cols) * (cw + sp), y |-> (i \div cols) * (ch + sp),
        width |-> cw, height |-> ch]

InCell(e, cell) ==
    /\ cell.x <= e.x /\ e.x + e.width <= cell.x + cell.width
    /\ cell.y <= e.y /\ e.y + e.height <= cell.y + cell.height

GridRun(r) == r \in active /\ req[r].layout = "grid"
StackedRun(r) == r \in active /\ req[r].layout = "stacked"

(* C17: in the grid layout every element lies in the cell of its own index  *)
(* in the working set (row = i div cols, col = i mod cols, cols =           *)
(* ceil(sqrt(m))), whichever other images failed to load, and the elements  *)
(* are in the order of their indices.                                       *)
C17_GridSlotByIndex ==
    \A r \in Runs :
        GridRun(r) =>
            \A k \in 1..Len(elements[r]) :
                LET e == elements[r][k]
                IN /\ e.widx < Len(processed[r])
                   /\ InCell(e, GridCell(Len(processed[r]), Width(r),
                                         Height(r), req[r].spacing, e.widx))
                   /\ k > 1 => elements[r][k - 1].widx < e.widx

(* a finished grid run in which an image failed to load and a later image   *)
(* was placed                                                               *)
C17_Witness ==
    \E r \in Runs :
        /\ GridRun(r) /\ Done(r)
        /\ \E k \in 1..Len(elements[r]) :
              \E i \in lfail[r] : i < elements[r][k].widx

(* C18: in the grid layout every element has 0 <= x < output_width and      *)
(* 0 <= y < output_height.                                                  *)
C18_GridElementsOnCanvas ==
    \A r \in Runs :
        GridRun(r) =>
            \A k \in 1..Len(elements[r]) :
                /\ 0 <= elements[r][k].x /\ elements[r][k].x < Width(r)
                /\ 0 <= elements[r][k].y /\ elements[r][k].y < Height(r)

(* a finished grid run that placed an image in the second row and another   *)
(* in the second column                                                     *)
C18_Witness ==
    \E r \in Runs :
        /\ GridRun(r) /\ Done(r)
        /\ \E k \in 1..Len(elements[r]) : elements[r][k].x > 0
        /\ \E k \in 1..Len(elements[r]) : elements[r][k].y > 0

(* the request of the scenario: 4 images of 400x300, 800x800, spacing 10 *)
ScenarioRun(r) ==
    /\ GridRun(r)
    /\ Done(r)
    /\ NumImages(r) = 4
    /\ \A k \in 1..4 : SrcW(req[r].images[k]) = 400 /\ SrcH(req[r].images[k]) = 300
    /\ Width(r) = 800 /\ Height(r) = 800 /\ req[r].spacing = 10
    /\ tfail[r] = {} /\ lfail[r] = {}

(* C19: for 4 images of 400x300, layout grid, 800x800, spacing 10, the      *)
(* cells are 395x395 in 2 columns and 2 rows, all 4 elements are present,   *)
(* and every element is the 395x296 fit of its image, centred in its cell:  *)
(* at (0,49), (405,49), (0,454) and (405,454).                              *)
C19_GridScenario ==
    \A r \in Runs :
        ScenarioRun(r) =>
            /\ GridCell(4, 800, 800, 10, 3) =
                  [x |-> 405, y |-> 405, width |-> 395, height |-> 395]
            /\ Geometry(result[r].elements) =
                  <<<<0, 49, 395, 296>>, <<405, 49, 395, 296>>,
                    <<0, 454, 395, 296>>, <<405, 454, 395, 296>>>>

C19_Witness == \E r \in Runs : ScenarioRun(r)

(* C20: in the stacked layout the first element is at y = 0, every later    *)
(* element is at the y of the element before it plus that element's height  *)
(* plus the spacing, whether or not images in between failed, and so the y  *)
(* of the elements never decreases.                                         *)
C20_StackedCursor ==
    \A r \in Runs :
        StackedRun(r) =>
            \A k \in 1..Len(elements[r]) :
                LET e == elements[r][k]
                IN IF k = 1 THEN e.y = 0
                   ELSE /\ e.y = elements[r][k - 1].y
                                  + elements[r][k - 1].height + req[r].spacing
                        /\ e.y >= elements[r][k - 1].y

(* a finished stacked run that placed an image, failed to load the next     *)
(* one and placed a third                                                   *)
C20_Witness ==
    \E r \in Runs :
        /\ StackedRun(r) /\ Done(r)
        /\ \E k \in 2..Len(elements[r]) :
              elements[r][k].widx > elements[r][k - 1].widx + 1

-----------------------------------------------------------------------------
(* Properties of the mosaic, freeform and circular layouts *)

MosaicRun(r) == r \in active /\ req[r].layout = "mosaic"

(* the origin of the i-th cell (from 0) of the row-major scan of the canvas *)
(* in steps of tile_size = min(W, H) div 10                                 *)
MosaicCell(W, H, i) ==
    LET ts == (IF W <= H THEN W ELSE H) \div 10
        cols == (W + ts - 1) \div ts
    IN [x |-> (i % cols) * ts, y |-> (i \div cols) * ts]

(* C21: in the mosaic layout the image at index i of the working set is at  *)
(* the i-th cell of the row-major scan in steps of min(W,H) div 10; a tile  *)
(* whose image failed to load stays empty, so an element sits as many cells *)
(* beyond its rank among the elements as images failed to load before it    *)
(* (none: at its rank; one: exactly one cell further).                      *)
C21_MosaicCellByIndex ==
    \A r \in Runs :
        MosaicRun(r) =>
            \A k \in 1..Len(elements[r]) :
                LET e == elements[r][k]
                    cell == MosaicCell(Width(r), Height(r), e.widx)
                IN /\ e.x = cell.x
                   /\ e.y = cell.y
                   /\ e.widx = (k - 1)
                         + Cardinality({j \in lfail[r] : j < e.widx})

(* a finished mosaic run in which one image failed to load, an image before *)
(* it was placed, and an image after it was placed in the second row        *)
C21_Witness ==
    \E r \in Runs :
        /\ MosaicRun(r) /\ Done(r)
        /\ \E j \in lfail[r] :
              /\ lfail[r] = {j}
              /\ \E k \in 1..Len(elements[r]) : elements[r][k].widx < j
              /\ \E k \in 1..Len(elements[r]) :
                    elements[r][k].widx > j /\ elements[r][k].y > 0

FreeformRun(r) == r \in active /\ req[r].layout = "freeform"

(* the proximity test of element e against the position of element f: both *)
(* distances are below the width and the height of e                        *)
ProximityHit(e, f) == Abs(e.x - f.x) < e.width /\ Abs(e.y - f.y) < e.height

(* C22: in the freeform layout every image that loaded has its element;     *)
(* the sampling loop of an element ended after at most 50 candidates,       *)
(* before that only with a candidate that passes the proximity test against *)
(* every earlier element, and at 50 with a candidate that fails it; every   *)
(* element has 0 <= x <= W - width and 0 <= y <= H - height.                *)
C22_FreeformAlwaysPlaces ==
    \A r \in Runs :
        FreeformRun(r) =>
            /\ {elements[r][k].widx : k \in 1..Len(elements[r])} =
                   {o.widx : o \in opened[r]}
            /\ \A k \in 1..Len(elements[r]) :
                  LET e == elements[r][k]
                      hit == \E j \in 1..(k - 1) : ProximityHit(e, elements[r][j])
                  IN /\ e.attempts \in 0..50
                     /\ (e.attempts < 50) <=> ~hit
                     /\ 0 <= e.x /\ e.x <= Width(r) - e.width
                     /\ 0 <= e.y /\ e.y <= Height(r) - e.height

(* a finished freeform run with an element that was pasted after 50         *)
(* candidates failed the test, on the position of the element before it     *)
C22_Witness ==
    \E r \in Runs :
        /\ FreeformRun(r) /\ Done(r)
        /\ \E k \in 2..Len(elements[r]) :
              /\ elements[r][k].attempts = 50
              /\ elements[r][k].x = elements[r][k - 1].x
              /\ elements[r][k].y = elements[r][k - 1].y

RectsIntersect(e, f) ==
    /\ e.x < f.x + f.width /\ f.x < e.x + e.width
    /\ e.y < f.y + f.height /\ f.y < e.y + e.height

(* C27: in the freeform layout an element whose position was accepted       *)
(* before the 50 attempts were exhausted has a rectangle that intersects    *)
(* the rectangle of no earlier element.                                     *)
C27_AcceptedDoesNotOverlap ==
    \A r \in Runs :
        FreeformRun(r) =>
            \A k \in 1..Len(elements[r]) :
                elements[r][k].attempts < 50 =>
                    \A j \in 1..(k - 1) :
                        ~RectsIntersect(elements[r][k], elements[r][j])

CircularRun(r) == r \in active /\ req[r].layout = "circular"

(* cos and sin of 2*pi*i/m where they are 0, 1 or -1 *)
ExactAngles == {1, 2, 4}
UnitCos(i, m) ==
    CASE i = 0 -> 1
      [] m = 2 /\ i = 1 -> -1
      [] m = 4 /\ i = 2 -> -1
      [] OTHER -> 0
UnitSin(i, m) ==
    CASE m = 4 /\ i = 1 -> 1
      [] m = 4 /\ i = 3 -> -1
      [] OTHER -> 0

(* C23: in the circular layout with m in {1, 2, 4} images, the centre       *)
(* (x + width/2, y + height/2) of the element of the i-th image is within   *)
(* the rounding tolerance of (W div 2, H div 2) + (min(W,H) div 3) *        *)
(* (cos(2*pi*i/m), sin(2*pi*i/m)), whatever the aspect ratio of the image.  *)
(* Both sides are doubled to stay in the integers; the tolerance is two     *)
(* pixels.                                                                  *)
C23_CircularCentres ==
    \A r \in Runs :
        (CircularRun(r) /\ Len(processed[r]) \in ExactAngles) =>
            \A k \in 1..Len(elements[r]) :
                LET e == elements[r][k]
                    m == Len(processed[r])
                    radius == (IF Width(r) <= Height(r) THEN Width(r)
                               ELSE Height(r)) \div 3
                    cx == (Width(r) \div 2) + radius * UnitCos(e.widx, m)
                    cy == (Height(r) \div 2) + radius * UnitSin(e.widx, m)
                IN /\ Abs(2 * e.x + e.width - 2 * cx) <= 4
                   /\ Abs(2 * e.y + e.height - 2 * cy) <= 4

-----------------------------------------------------------------------------
(* Containment in the grid, stacked and mosaic layouts *)

OnCanvas(e, W, H) ==
    /\ 0 <= e.x /\ e.x + e.width <= W
    /\ 0 <= e.y /\ e.y + e.height <= H

(* C24: in the grid layout, when cell_width >= 1 and cell_height >= 1,      *)
(* every element's rectangle lies inside the cell of its index, inside the  *)
(* canvas (x + width <= output_width, y + height <= output_height), and     *)
(* the rectangles of two elements never intersect.                          *)
C24_GridElementsDisjoint ==
    \A r \in Runs :
        LET m == Len(processed[r])
            cell(i) == GridCell(m, Width(r), Height(r), req[r].spacing, i)
        IN (GridRun(r) /\ m > 0 /\ cell(0).width >= 1 /\ cell(0).height >= 1) =>
              \A k \in 1..Len(elements[r]) :
                  /\ InCell(elements[r][k], cell(elements[r][k].widx))
                  /\ OnCanvas(elements[r][k], Width(r), Height(r))
                  /\ \A j \in 1..(k - 1) :
                        ~RectsIntersect(elements[r][k], elements[r][j])

(* a finished grid run that placed every one of five or more images, one   *)
(* of them as wide as its cell                                              *)
C24_Witness ==
    \E r \in Runs :
        /\ GridRun(r) /\ Done(r)
        /\ Len(elements[r]) >= 5
        /\ Len(elements[r]) = NumImages(r)
        /\ \E k \in 1..Len(elements[r]) :
              elements[r][k].width =
                  GridCell(Len(processed[r]), Width(r), Height(r),
                           req[r].spacing, elements[r][k].widx).width

(* C25: in the stacked layout, when image_height =                          *)
(* floor((H - spacing*(m-1))/m) >= 1, every element has 0 <= x,             *)
(* x + width <= output_width and y + height <= output_height, whichever     *)
(* images failed to load.                                                   *)
C25_StackedElementsOnCanvas ==
    \A r \in Runs :
        LET m == Len(processed[r])
        IN (StackedRun(r) /\ m > 0
               /\ (Height(r) - req[r].spacing * (m - 1)) \div m >= 1) =>
              \A k \in 1..Len(elements[r]) :
                  OnCanvas(elements[r][k], Width(r), Height(r))

(* a finished stacked run that placed all of its three or more images *)
C25_Witness ==
    \E r \in Runs :
        /\ StackedRun(r) /\ Done(r)
        /\ Len(elements[r]) >= 3
        /\ Len(elements[r]) = NumImages(r)
        /\ \E k \in 1..Len(elements[r]) : elements[r][k].y > 0

(* C26: in the mosaic layout every element's rectangle lies inside the      *)
(* canvas: x + width <= output_width and y + height <= output_height, also  *)
(* when the canvas is not a whole number of tiles wide or high.             *)
C26_MosaicElementsOnCanvas ==
    \A r \in Runs :
        MosaicRun(r) =>
            \A k \in 1..Len(elements[r]) :
                OnCanvas(elements[r][k], Width(r), Height(r))

-----------------------------------------------------------------------------
(* Properties of assign_task and of the performance metrics *)

(* BaseAgent.is_available *)
IsAvailable ==
    /\ agent_status = "online"
    /\ Cardinality(current_tasks) < MaxConcurrentTasks

(* this step is the return of True by assign_task for task t *)
Accepts(t) == reported[t] # "accepted" /\ reported'[t] = "accepted"

(* this step is the return of False by assign_task for task t *)
Rejects(t) == reported[t] # "rejected" /\ reported'[t] = "rejected"

(* C28: assign_task returns True, and creates the wrapper of the task, only *)
(* in a state in which the agent is online and holds fewer than             *)
(* max_concurrent_tasks tasks.                                              *)
C28_AcceptsOnlyWhenAvailable ==
    [][\A t \in Tasks :
          (Accepts(t) \/ (tpc[t] # "wr_scheduled" /\ tpc'[t] = "wr_scheduled"))
              => IsAvailable]_vars

(* C29: the step in which assign_task returns False for a task changes      *)
(* neither a task nor the set of current tasks nor the performance metrics, *)
(* invokes generate_collage for no task, and leaves the task pending, not   *)
(* held by the agent, and without a wrapper.                                *)
C29_RejectionChangesNothing ==
    [][\A t \in Tasks :
          Rejects(t) =>
              /\ tasks' = tasks
              /\ current_tasks' = current_tasks
              /\ performance_metrics' = performance_metrics
              /\ engine_called' = engine_called
              /\ tasks'[t].status = "pending"
              /\ t \notin current_tasks'
              /\ tpc'[t] = "done"]_vars

(* a valid task was rejected while the agent held max_concurrent_tasks      *)
(* tasks, and it is still pending                                           *)
C29_Witness ==
    \E t \in Tasks :
        /\ reported[t] = "rejected"
        /\ ValidateTask(tasks[t])
        /\ StatusOf(t) = "pending"
        /\ Cardinality(current_tasks) = MaxConcurrentTasks

(* the wrapper of an accepted task has finished *)
WrapperFinished(t) == reported[t] = "accepted" /\ tpc[t] = "done"

(* C30: success_count <= task_count; task_count is the number of accepted   *)
(* tasks whose wrapper has finished and success_count the number of those   *)
(* for which process_task returned; a task whose wrapper has finished is    *)
(* not among the current tasks.                                             *)
C30_MetricsCountFinishedTasks ==
    /\ performance_metrics.success_count <= performance_metrics.task_count
    /\ performance_metrics.task_count =
           Cardinality({t \in Tasks : WrapperFinished(t)})
    /\ performance_metrics.success_count =
           Cardinality({t \in Tasks : WrapperFinished(t) /\ tasks[t].result})
    /\ \A t \in Tasks : WrapperFinished(t) => t \notin current_tasks

(* three wrappers have finished, at least one after process_task returned   *)
(* and one after it raised, and the agent has been stopped                  *)
C30_Witness ==
    /\ performance_metrics.task_count = 3
    /\ performance_metrics.success_count \in {1, 2}
    /\ \E t \in Tasks : WrapperFinished(t) /\ StatusOf(t) = "failed"
    /\ agent_status = "offline"

====
